---- MODULE Spec2Model ----
(***************************************************************************)
(* Epilog SDK: the buffered trace pipeline of EpilogCallbackHandler        *)
(* (src/epilog/sdk/callback_handler.py) on top of asyncio.Queue, with its  *)
(* background worker, its circuit breaker and flush().                     *)
(*                                                                         *)
(* One asyncio event loop runs the tasks; a task gives up control only at  *)
(* an await, so every action below is the code between two awaits.         *)
(*                                                                         *)
(* The API side (src/epilog/api): event ingestion into the store, the      *)
(* diagnosis engine with its Gemini provider, and the patch applier.       *)
(***************************************************************************)
EXTENDS Integers, Sequences, FiniteSets

\* ---------------------------------------------------------------- bounds
QueueSize == 2          \* queue_size handed to the constructor (maxsize > 0)
MaxEvents == 4          \* callbacks the producers make before they stop
TickStep == 30          \* seconds the clock advances in one step
MaxTicks == 2           \* clock steps observed
MaxStartCalls == 2      \* start_session() calls made on the handler

\* ------------------------------------------------------ program constants
MaxFailures == 3        \* self.max_failures
CooldownPeriod == 60    \* self.cooldown_period

None == 0               \* Python None for ids (session ids start at 1)
NoEvent == [id |-> 0, session_id |-> 0]

TransportOutcomes == {"created", "http_error", "network_error"}

VARIABLES
    session_id,         \* self.session_id (None or the id the store returned)
    worker_task,        \* self.worker_task is set
    maxsize,            \* self.queue.maxsize, fixed by the constructor
    queue,              \* self.queue._queue, head first
    unfinished,         \* self.queue._unfinished_tasks
    failed_count,       \* self.failed_count
    cooldown_until,     \* self.cooldown_until
    now,                \* time.time()
    workerPc,           \* "none" | "get" | "send" | "cancelled" | "crashed"
    inflight,           \* the event the worker holds while awaiting send_event
    flushPc,            \* "idle" | "waiting" | "woken" | "returned"
    startsMade,         \* start_session() calls made so far
    creating,           \* of these, suspended in await create_session()
    sessionsCreated,    \* sessions the store has created for this handler
    nextId,             \* arrival number of the next enqueued event
    workersCreated,     \* asyncio.create_task(self._worker()) calls made
    \* history of what happened, read by the properties only
    sent,               \* ids handed to client.send_event, in call order
    lastOutcome,        \* what the worker did with the last event it took
    prevFailed,         \* failed_count when the last send outcome arrived
    consecFailed,       \* failed sends since the last successful one
    lastEnqueue,        \* branch the last _enqueue_event call took
    callbackRaised,     \* some _enqueue_event call raised to its caller
    flushMark,          \* events enqueued before the flush() call now waiting
    flushRetQsize,      \* qsize() at the moment flush() last returned
    flushRetPending,    \* at that moment, was an event <= flushMark unprocessed
    \* the API server
    store,              \* rows of trace_events
    payloads,           \* per enqueued event: the payload its callback built
    posted,             \* the last POST /events of a client and its answer
    pendingTx,          \* rows flushed by create_event whose commit is pending
    last_event_id,      \* the cursor of the live stream
    delivered,          \* the messages the live stream has sent
    sessions,           \* ids of the rows of trace_sessions
    queryReq,           \* the last query keyed by a session id
    queryResp,          \* and its answer
    \* the diagnosis oracle (Gemini)
    oracleReply,        \* what the oracle answers to generateContent
    provided,           \* what GeminiProvider.diagnose produced for it
    \* the diagnosis engine and its endpoint
    engineConfigured,   \* settings.google_api_key is set
    projectRoot,        \* settings.epilog_project_path is set
    projectFiles,       \* the files os.path.join(project root, path) names
    diagReq,            \* the last diagnosis request
    diagResp,           \* and what it produced
    \* the patch applier and the file system it works on
    files,              \* state of each target path
    tempFiles,          \* temporary .diff files on disk
    patchRuns,          \* invocations of the patch utility so far
    applyCalls,         \* apply_patch calls so far
    applyReq,           \* the last apply_patch call and what its environment did
    applyResp           \* and how it ended

pipelineVars == <<session_id, worker_task, maxsize, queue, unfinished, failed_count,
          cooldown_until, now, workerPc, inflight, flushPc, startsMade, creating,
          sessionsCreated, nextId, workersCreated, sent, lastOutcome, prevFailed,
          consecFailed, lastEnqueue, callbackRaised, flushMark,
          flushRetQsize, flushRetPending>>

queryVars == <<sessions, queryReq, queryResp>>
feedVars == <<posted, pendingTx, last_event_id, delivered, queryVars>>
serverVars == <<store, payloads, feedVars>>
oracleVars == <<oracleReply, provided>>
configVars == <<engineConfigured, projectRoot, projectFiles>>
diagVars == <<configVars, diagReq, diagResp>>
patchVars == <<files, tempFiles, patchRuns, applyCalls, applyReq, applyResp>>
apiVars == <<serverVars, oracleVars, diagVars, patchVars>>

vars == <<pipelineVars, apiVars>>

breakerVars == <<failed_count, cooldown_until>>
histWorker == <<sent, lastOutcome, prevFailed, consecFailed>>
histEnqueue == <<lastEnqueue, callbackRaised>>
histFlush == <<flushMark, flushRetQsize, flushRetPending>>
startVars == <<session_id, worker_task, maxsize, startsMade, creating, sessionsCreated,
               workersCreated>>

\* ------------------------------------------------------- asyncio.Queue
\* full() that reports a queue full one event too late
FullLate(q) == Len(q) > maxsize

\* Queue.full(): maxsize > 0 and qsize() >= maxsize
Full(q) == Len(q) >= maxsize

\* get_nowait() taking from the wrong end of the deque
QueueGetNewest(q) == [item |-> q[Len(q)], rest |-> SubSeq(q, 1, Len(q) - 1)]

\* get_nowait() returning the head without removing it
QueueGetPeek(q) == [item |-> Head(q), rest |-> q]

\* Queue.get_nowait() on a non-empty queue: _get() is deque.popleft()
QueueGet(q) == [item |-> Head(q), rest |-> Tail(q)]

\* task_done() that forgets to count down
TaskDoneNoop(unf) == unf

\* Queue.task_done(): the counter after the call; -1 stands for ValueError
TaskDone(unf) == IF unf <= 0 THEN -1 ELSE unf - 1

\* Event.set() in task_done wakes a join() that is waiting
WakeFlush(pc, unf) == IF unf = 0 /\ pc = "waiting" THEN "woken" ELSE pc

\* ------------------------------------------------------- circuit breaker
\* a worker that never consults the breaker
CooldownNever(t, until) == FALSE

\* a breaker that stays open once it has opened
CooldownSticky(t, until) == until # 0

\* line 85: time.time() < self.cooldown_until
CooldownActive(t, until) == t < until

\* _handle_failure comparing with > instead of >=
HandleFailureLate(count, until, t) ==
    LET c == count + 1 IN
    [failed_count |-> c,
     cooldown_until |-> IF c > MaxFailures THEN t + CooldownPeriod ELSE until]

\* _handle_failure opening the breaker only on the failure that reaches the
\* threshold, as if the expiry of the cooldown had cleared the counter
HandleFailureExact(count, until, t) ==
    LET c == count + 1 IN
    [failed_count |-> c,
     cooldown_until |-> IF c = MaxFailures THEN t + CooldownPeriod ELSE until]

\* _handle_failure: the breaker state after one more failure at time t
HandleFailure(count, until, t) ==
    LET c == count + 1 IN
    [failed_count |-> c,
     cooldown_until |-> IF c >= MaxFailures THEN t + CooldownPeriod ELSE until]

\* a transport whose every answer the worker takes for a success
SendEventOptimistic(outcome) == TRUE

\* EpilogClient.send_event: the id on 201, None on any exception; the worker
\* tests the result for truth (ids of the store start at 1)
SendEvent(outcome) == outcome = "created"

\* a worker that clears the counter when it skips an event
AfterSkipReset(count, until, t) == [failed_count |-> 0, cooldown_until |-> until]

\* a worker that counts a skipped event as a failure
AfterSkipCounted(count, until, t) == HandleFailure(count, until, t)

\* lines 85-88: a skipped event goes to the finally clause by "continue";
\* _handle_failure is not called
AfterSkip(count, until, t) == [failed_count |-> count, cooldown_until |-> until]

\* a worker that does not clear the counter on success
AfterSendNoReset(success, count, until, t) ==
    IF success
    THEN [failed_count |-> count, cooldown_until |-> until]
    ELSE HandleFailure(count, until, t)

\* the worker's handling of the result of send_event, lines 92-95
AfterSend(success, count, until, t) ==
    IF success
    THEN [failed_count |-> 0, cooldown_until |-> until]
    ELSE HandleFailure(count, until, t)

\* ------------------------------------------------------- _enqueue_event
\* lines 138-150 on queue q with unfinished counter unf; taskDone tells
\* whether the eviction's task_done() ran (it may set the _finished event)
PutEvent(q, unf, ev) ==
    IF ~Full(q)
    THEN [queue |-> Append(q, ev), unfinished |-> unf + 1,
          taskDone |-> FALSE, branch |-> "appended"]
    ELSE IF q = <<>>
    THEN \* get_nowait raises QueueEmpty, swallowed at line 147
         [queue |-> q, unfinished |-> unf, taskDone |-> FALSE, branch |-> "lost"]
    ELSE LET got == QueueGet(q) IN
         IF TaskDone(unf) < 0
         THEN \* task_done raises ValueError, swallowed at line 147
              [queue |-> got.rest, unfinished |-> unf,
               taskDone |-> FALSE, branch |-> "lost"]
         ELSE IF Full(got.rest)
         THEN \* QueueFull raised inside the QueueFull handler is not caught
              [queue |-> got.rest, unfinished |-> TaskDone(unf),
               taskDone |-> TRUE, branch |-> "raised"]
         ELSE [queue |-> Append(got.rest, ev), unfinished |-> TaskDone(unf) + 1,
               taskDone |-> TRUE, branch |-> "evicted"]

\* EpilogCallbackHandler(queue_size=size) after __init__
InitHandler(size) ==
    /\ session_id = None
    /\ worker_task = FALSE
    /\ maxsize = size
    /\ queue = <<>>
    /\ unfinished = 0
    /\ failed_count = 0
    /\ cooldown_until = 0
    /\ now = 1
    /\ workerPc = "none"
    /\ inflight = NoEvent
    /\ flushPc = "idle"
    /\ startsMade = 0
    /\ creating = 0
    /\ sessionsCreated = 0
    /\ nextId = 1
    /\ workersCreated = 0
    /\ sent = <<>>
    /\ lastOutcome = "none"
    /\ prevFailed = 0
    /\ consecFailed = 0
    /\ lastEnqueue = "none"
    /\ callbackRaised = FALSE
    /\ flushMark = 0
    /\ flushRetQsize = 0
    /\ flushRetPending = FALSE

InitPipeline == InitHandler(QueueSize)

\* an empty trace_events table; no callback has built a payload
NoPost == [event_type |-> "none", screenshot_base64 |-> "none", status |-> 0]

NoQuery == [op |-> "none", session_id |-> 0]
NoAnswer == [status |-> 0, notFound |-> FALSE, ids |-> <<>>]

\* no session query has been made
InitQueryIdle ==
    /\ sessions = {}
    /\ queryReq = NoQuery
    /\ queryResp = NoAnswer

\* no client has posted, no stream is open
InitFeedIdle ==
    /\ posted = NoPost
    /\ pendingTx = {}
    /\ last_event_id = 0
    /\ delivered = <<>>
    /\ InitQueryIdle

InitServer ==
    /\ store = {}
    /\ payloads = <<>>
    /\ InitFeedIdle

\* no oracle request has been made
NoReply == [kind |-> "none", wrap |-> "plain", doc |-> <<>>]
NoReport ==
    [incident_summary |-> "none", visual_mismatch_identified |-> FALSE,
     explanation |-> <<>>, suggested_fix_logic |-> "none"]
NotProvided == [raised |-> FALSE, report |-> NoReport]

InitOracleIdle ==
    /\ oracleReply = NoReply
    /\ provided = NotProvided

\* the paths run_diagnosis can resolve: the default, a metadata hint naming
\* a file of the project, and a hint that climbs out of the project root
SourcePaths == {"agent.py", "src.py", "../outside.py"}

NoReq == [event_id |-> 0, window_size |-> 0]
NoResp ==
    [status |-> 0, raised |-> "none", detail |-> "none", window |-> <<>>,
     diagnoseCalls |-> 0, patchCalls |-> 0, oracleRequests |-> 0,
     diagnosis |-> NoReport,
     patch |-> "null"]

\* Settings() without GOOGLE_API_KEY and EPILOG_PROJECT_PATH; no request
InitDiagIdle ==
    /\ engineConfigured = FALSE
    /\ projectRoot = FALSE
    /\ projectFiles = [p \in SourcePaths |-> "missing"]
    /\ diagReq = NoReq
    /\ diagResp = NoResp

\* file_path arguments: a file of the project, a name that may not exist,
\* a path that climbs out of the root, an absolute path
PatchPaths == {"agent.py", "gone.py", "../outside.py", "/etc/abs.py"}

NoApply ==
    [path |-> "none", create |-> "ok", write |-> "ok", utility |-> "exit0",
     unlink |-> "ok"]
NoApplyResp ==
    [result |-> "none", status |-> 0, tempCreated |-> FALSE, tempLeft |-> FALSE,
     invoked |-> FALSE, files |-> <<>>]

\* nothing on disk, apply_patch never called
InitPatchIdle ==
    /\ files = [p \in PatchPaths |-> "missing"]
    /\ tempFiles = 0
    /\ patchRuns = 0
    /\ applyCalls = 0
    /\ applyReq = NoApply
    /\ applyResp = NoApplyResp

Init == InitPipeline /\ InitServer /\ InitOracleIdle /\ InitDiagIdle /\ InitPatchIdle

\* any on_* callback: builds the event and calls _enqueue_event (no await)
EnqueueCore ==
    /\ nextId <= MaxEvents
    /\ IF session_id = None
       THEN /\ lastEnqueue' = "discarded"
            /\ UNCHANGED <<queue, unfinished, flushPc, nextId, callbackRaised>>
       ELSE LET ev == [id |-> nextId, session_id |-> session_id]
                r == PutEvent(queue, unfinished, ev)
            IN /\ queue' = r.queue
               /\ unfinished' = r.unfinished
               /\ flushPc' = IF r.taskDone /\ TaskDone(unfinished) = 0
                             THEN WakeFlush(flushPc, 0) ELSE flushPc
               /\ nextId' = nextId + 1
               /\ lastEnqueue' = r.branch
               /\ callbackRaised' = (callbackRaised \/ r.branch = "raised")
    /\ UNCHANGED <<startVars, breakerVars, now, workerPc, inflight,
                   histWorker, histFlush>>

Enqueue == EnqueueCore /\ UNCHANGED apiVars

\* start_session creating a worker whenever a session id is set
SpawnAlways(sid, task) == sid # None

\* line 72: if self.session_id and not self.worker_task
SpawnWorker(sid, task) == sid # None /\ ~task

\* start_session up to the await of create_session (lines 69-70), or all of
\* it when the session id is already set (lines 72-75)
StartCall ==
    /\ startsMade < MaxStartCalls
    /\ startsMade' = startsMade + 1
    /\ IF session_id = None
       THEN /\ creating' = creating + 1
            /\ UNCHANGED <<worker_task, workerPc, workersCreated>>
       ELSE /\ creating' = creating
            /\ worker_task' = (worker_task \/ SpawnWorker(session_id, worker_task))
            /\ workerPc' = IF SpawnWorker(session_id, worker_task)
                            THEN "get" ELSE workerPc
            /\ workersCreated' = IF SpawnWorker(session_id, worker_task)
                                  THEN workersCreated + 1 ELSE workersCreated
    /\ UNCHANGED <<session_id, sessionsCreated, maxsize, queue, unfinished,
                   breakerVars, now, inflight, flushPc, nextId, histWorker,
                   histEnqueue, histFlush, apiVars>>

\* create_session returns (a new id, or None on any failure): lines 70-75
StartResume(created) ==
    /\ creating > 0
    /\ creating' = creating - 1
    /\ session_id' = IF created THEN sessionsCreated + 1 ELSE None
    /\ sessionsCreated' = IF created THEN sessionsCreated + 1 ELSE sessionsCreated
    /\ worker_task' = (worker_task \/ SpawnWorker(session_id', worker_task))
    /\ workerPc' = IF SpawnWorker(session_id', worker_task) THEN "get" ELSE workerPc
    /\ workersCreated' = IF SpawnWorker(session_id', worker_task)
                          THEN workersCreated + 1 ELSE workersCreated
    /\ UNCHANGED <<startsMade, maxsize, queue, unfinished, breakerVars, now,
                   inflight, flushPc, nextId, histWorker, histEnqueue, histFlush,
                   apiVars>>

\* the worker from queue.get() returning to the next await (lines 82-90):
\* either the breaker is open and the event is dropped, or send_event starts
WorkerDequeue ==
    /\ workerPc = "get"
    /\ queue # <<>>
    /\ LET got == QueueGet(queue) IN
       /\ queue' = got.rest
       /\ IF CooldownActive(now, cooldown_until)
          THEN /\ unfinished' = TaskDone(unfinished)
               /\ workerPc' = IF TaskDone(unfinished) < 0 THEN "crashed" ELSE "get"
               /\ flushPc' = WakeFlush(flushPc, TaskDone(unfinished))
               /\ lastOutcome' = "skipped"
               /\ failed_count' = AfterSkip(failed_count, cooldown_until, now).failed_count
               /\ cooldown_until' =
                      AfterSkip(failed_count, cooldown_until, now).cooldown_until
               /\ UNCHANGED <<inflight, sent>>
          ELSE /\ inflight' = got.item
               /\ sent' = Append(sent, got.item.id)
               /\ workerPc' = "send"
               /\ UNCHANGED <<unfinished, flushPc, lastOutcome, breakerVars>>
    /\ UNCHANGED <<startVars, now, nextId, prevFailed,
                   consecFailed, histEnqueue, histFlush, apiVars>>

\* send_event returns: lines 90-100
WorkerSendDoneCore(outcome) ==
    /\ workerPc = "send"
    /\ LET success == SendEvent(outcome)
           b == AfterSend(success, failed_count, cooldown_until, now)
       IN /\ failed_count' = b.failed_count
          /\ cooldown_until' = b.cooldown_until
          /\ lastOutcome' = IF outcome = "created" THEN "sent" ELSE "failed"
          /\ consecFailed' = IF outcome = "created" THEN 0 ELSE consecFailed + 1
    /\ prevFailed' = failed_count
    /\ unfinished' = TaskDone(unfinished)
    /\ workerPc' = IF TaskDone(unfinished) < 0 THEN "crashed" ELSE "get"
    /\ flushPc' = WakeFlush(flushPc, TaskDone(unfinished))
    /\ inflight' = NoEvent
    /\ UNCHANGED <<startVars, queue, now, nextId, sent, histEnqueue, histFlush>>

\* the same with the ingestion endpoint seen from outside: any outcome
WorkerSendDone(outcome) == WorkerSendDoneCore(outcome) /\ UNCHANGED apiVars

\* worker_task.cancel() takes effect at the await the worker is suspended in:
\* in queue.get() nothing was taken; in send_event the finally clause runs
\* task_done() and the CancelledError ends the loop (lines 99-102)
CancelWorker ==
    /\ workerPc \in {"get", "send"}
    /\ workerPc' = "cancelled"
    /\ IF workerPc = "send"
       THEN /\ unfinished' = TaskDone(unfinished)
            /\ flushPc' = WakeFlush(flushPc, TaskDone(unfinished))
            /\ inflight' = NoEvent
            /\ lastOutcome' = "cancelled"
       ELSE UNCHANGED <<unfinished, flushPc, inflight, lastOutcome>>
    /\ UNCHANGED <<startVars, queue, breakerVars, now, nextId, sent,
                   prevFailed, consecFailed, histEnqueue, histFlush, apiVars>>

\* an event enqueued before the current flush() call that is still buffered
\* or held by the worker
PendingBefore(mark, q, held) ==
    \/ held.id # 0 /\ held.id <= mark
    \/ \E i \in 1..Len(q) : q[i].id <= mark

\* flush() up to its return or to the await inside queue.join()
FlushCall ==
    /\ flushPc \in {"idle", "returned"}
    /\ IF queue = <<>> \/ unfinished <= 0
       THEN /\ flushPc' = "returned"
            /\ flushMark' = 0
            /\ flushRetQsize' = Len(queue)
            /\ flushRetPending' = PendingBefore(nextId - 1, queue, inflight)
       ELSE /\ flushPc' = "waiting"
            /\ flushMark' = nextId - 1
            /\ flushRetQsize' = 0
            /\ flushRetPending' = FALSE
    /\ UNCHANGED <<startVars, queue, unfinished, breakerVars, now, workerPc,
                   inflight, nextId, histWorker, histEnqueue, apiVars>>

\* the flushing task runs again after _finished.set() resolved its future
FlushResume ==
    /\ flushPc = "woken"
    /\ flushPc' = "returned"
    /\ flushRetQsize' = Len(queue)
    /\ flushRetPending' = PendingBefore(flushMark, queue, inflight)
    /\ flushMark' = 0
    /\ UNCHANGED <<startVars, queue, unfinished, breakerVars, now, workerPc,
                   inflight, nextId, histWorker, histEnqueue, apiVars>>

\* the wall clock advances
Tick ==
    /\ now < 1 + MaxTicks * TickStep
    /\ now' = now + TickStep
    /\ UNCHANGED <<startVars, queue, unfinished, breakerVars, workerPc,
                   inflight, flushPc, nextId, histWorker, histEnqueue, histFlush,
                   apiVars>>

Next ==
    \/ Enqueue
    \/ StartCall
    \/ \E created \in BOOLEAN : StartResume(created)
    \/ WorkerDequeue
    \/ \E outcome \in TransportOutcomes : WorkerSendDone(outcome)
    \/ CancelWorker
    \/ FlushCall
    \/ FlushResume
    \/ Tick

Spec == Init /\ [][Next]_vars

\* the event loop runs every ready task, and send_event ends within the
\* client's timeout
FairSpec ==
    /\ Spec
    /\ WF_vars(WorkerDequeue)
    /\ WF_vars(\E outcome \in TransportOutcomes : WorkerSendDone(outcome))
    /\ WF_vars(FlushResume)

\* ---------------------------------------------------------------- properties
QueueIds == [i \in 1..Len(queue) |-> queue[i].id]
Enqueued == nextId - 1
NoDequeueYet == sent = <<>> /\ lastOutcome = "none"
BreakerOpen == now < cooldown_until
WorkerActive == workerPc \in {"get", "send"}

\* C1: while the worker has dequeued nothing, after N > QueueSize enqueues
\* the buffer holds exactly the last QueueSize enqueued events, oldest first.
C1_DropOldest ==
    (NoDequeueYet /\ Enqueued > QueueSize)
        => QueueIds = [i \in 1..QueueSize |-> Enqueued - QueueSize + i]

C1_Witness ==
    NoDequeueYet /\ Enqueued > QueueSize /\ lastEnqueue = "evicted"

\* C2: no _enqueue_event call raises to its caller, whatever the state of
\* the queue, the breaker and the transport.
C2_EnqueueNeverRaises == ~callbackRaised /\ lastEnqueue # "raised"

C2_Witness ==
    /\ lastEnqueue = "evicted"
    /\ Len(queue) = QueueSize
    /\ consecFailed > 0

\* C3: at the moment a flush() call returns the buffer is empty.
C3_FlushReturnsEmpty == flushPc = "returned" => flushRetQsize = 0

\* C4: at the moment a flush() call returns, no event enqueued before the
\* call is still buffered or held by the worker with its send in flight.
C4_FlushProcessedAll == flushPc = "returned" => ~flushRetPending

\* C5: a flush() waiting while the worker is active eventually returns
\* (producers stop after MaxEvents callbacks), unless the worker is ended.
C5_FlushTerminates ==
    (flushPc = "waiting" /\ WorkerActive)
        ~> (flushPc = "returned" \/ ~WorkerActive)

C5_Witness ==
    /\ flushPc = "woken"
    /\ unfinished = 0
    /\ WorkerActive
    /\ lastOutcome = "skipped"

\* C6: counted from a success or from the start, the breaker is closed after
\* fewer than MaxFailures consecutive failed sends, and the failure that makes
\* them MaxFailures sets the deadline to now + CooldownPeriod (breaker open).
C6_OpensAtThreshold ==
    /\ [](consecFailed < MaxFailures => ~BreakerOpen)
    /\ [][(consecFailed # MaxFailures /\ consecFailed' = MaxFailures)
            => (cooldown_until' = now' + CooldownPeriod /\ now' < cooldown_until')]_vars

C6_Witness ==
    /\ consecFailed = MaxFailures
    /\ cooldown_until = now + CooldownPeriod
    /\ lastOutcome = "failed"

\* C7: an event the worker takes from the queue while the breaker is open is
\* marked done without a transport call.
C7_NoSendWhileOpen ==
    [][(now < cooldown_until /\ Len(queue') < Len(queue))
         => /\ sent' = sent
            /\ inflight' = NoEvent
            /\ workerPc' = "get"
            /\ unfinished' = unfinished - 1]_vars

C7_Witness == lastOutcome = "skipped" /\ BreakerOpen /\ Len(sent) = MaxFailures

\* C8: an event the worker takes from the queue once the deadline has
\* elapsed is handed to the transport, whatever the failure counter.
C8_SendAfterDeadline ==
    [][(now >= cooldown_until /\ Len(queue') < Len(queue))
         => /\ sent' = Append(sent, Head(queue).id)
            /\ inflight' = Head(queue)
            /\ workerPc' = "send"]_vars

C8_Witness ==
    /\ cooldown_until # 0
    /\ now >= cooldown_until
    /\ failed_count >= MaxFailures
    /\ workerPc = "send"

\* C9: right after a successful send the failure counter is 0, whatever it
\* was before.
C9_SuccessResets == lastOutcome = "sent" => failed_count = 0

C9_Witness == lastOutcome = "sent" /\ prevFailed >= MaxFailures

\* C10: the events handed to the transport are in enqueue order.
C10_SentInOrder ==
    \A i, j \in 1..Len(sent) : i < j => sent[i] < sent[j]

C10_Witness ==
    /\ Len(sent) >= 2
    /\ lastEnqueue = "evicted"
    /\ \E i \in 1..(Len(sent) - 1) : sent[i + 1] > sent[i] + 1


\* ======================================================= event ingestion
\* what capture_screenshot hands to _enqueue_event: None, or the base64 text
\* of the captured image
SdkScreenshots == {"none", "valid"}

\* the "metadata" entry of event_data as the callbacks build it: no such key
\* (on_chain_end, on_tool_end, ...), the key with None, or with a dict that
\* lacks "source_file" or carries it, naming a file of the project or a path
\* that leaves the project root (the dict is the caller's)
SdkMetadata == {"absent", "null", "empty", "source", "outside"}

\* what a client can put in screenshot_base64
Base64Texts == {"none", "empty", "valid", "invalid"}

\* base64.b64decode of a non-empty text
B64Decode(text) == IF text = "valid" THEN "bytes" ELSE "error"

\* the autoincrement primary key of the next row
NextRowId(st) ==
    IF st = {} THEN 1
    ELSE 1 + (CHOOSE m \in {r.id : r \in st} : \A r \in st : r.id <= m)

\* create_event storing the decoded bytes without looking at the text
CreateEventBlind(st, ev, payload) ==
    [status |-> 201,
     store |-> st \cup {[id |-> NextRowId(st), session_id |-> ev.session_id,
                         run_id |-> ev.id, event_type |-> payload.event_type,
                         metadata |-> payload.metadata, screenshot |-> "null"]}]

\* POST /events: a falsy screenshot_base64 stores no screenshot, an
\* undecodable one is answered 400 and stores nothing
CreateEvent(st, ev, payload) ==
    LET given == payload.screenshot_base64 \notin {"none", "empty"} IN
    IF given /\ B64Decode(payload.screenshot_base64) = "error"
    THEN [status |-> 400, store |-> st]
    ELSE [status |-> 201,
          store |-> st \cup {[id |-> NextRowId(st), session_id |-> ev.session_id,
                              run_id |-> ev.id, event_type |-> payload.event_type,
                              metadata |-> payload.metadata,
                              screenshot |-> IF given THEN "bytes" ELSE "null"]}]

\* the kind a callback gives its event: only chain_start and tool_start
\* put a "metadata" entry in event_data
KindOf(shot, meta) == IF meta = "absent" THEN "tool_end" ELSE "chain_start"

\* one producer: a single start_session
E2EStart == startsMade = 0 /\ StartCall

\* a callback of the producer, at most queue_size of them, before flush()
E2EEnqueue(shot, meta) ==
    /\ session_id # None
    /\ flushPc = "idle"
    /\ nextId <= QueueSize
    /\ EnqueueCore
    /\ payloads' = Append(payloads, [event_type |-> KindOf(shot, meta),
                                      screenshot_base64 |-> shot, metadata |-> meta])
    /\ UNCHANGED <<store, feedVars, oracleVars, diagVars, patchVars>>

\* send_event answered by the ingestion endpoint
E2ESendDone ==
    /\ workerPc = "send"
    /\ LET r == CreateEvent(store, inflight, payloads[inflight.id]) IN
       /\ WorkerSendDoneCore(IF r.status = 201 THEN "created" ELSE "http_error")
       /\ store' = r.store
    /\ UNCHANGED <<payloads, feedVars, oracleVars, diagVars, patchVars>>

\* the producer's one flush()
E2EFlush == flushPc = "idle" /\ FlushCall

NextE2E ==
    \/ E2EStart
    \/ \E created \in BOOLEAN : StartResume(created)
    \/ \E shot \in SdkScreenshots, meta \in SdkMetadata : E2EEnqueue(shot, meta)
    \/ WorkerDequeue
    \/ E2ESendDone
    \/ E2EFlush
    \/ FlushResume

SpecE2E == Init /\ [][NextE2E]_vars

\* the rows of the store written for enqueued event e
RowsOf(e) == {r \in store : r.run_id = e /\ r.session_id = session_id}

\* C11: with a transport that accepts every send and no more events than
\* the capacity, once flush() has returned the store holds exactly one
\* record for each enqueued event, and an event enqueued with a screenshot
\* is stored with a non-null screenshot.
C11_FlushStoresAll ==
    flushPc = "returned" =>
        \A e \in 1..(nextId - 1) :
            /\ Cardinality(RowsOf(e)) = 1
            /\ payloads[e].screenshot_base64 = "valid" =>
                   \A r \in RowsOf(e) : r.screenshot # "null"

\* ======================================================= start_session
\* C12: any number of start_session() calls, sequential or interleaved at
\* the await on session creation, create at most one worker task, and a call
\* made while a worker exists creates none.
C12_OneWorker ==
    /\ workersCreated <= 1
    /\ worker_task => workersCreated = 1

C12_Witness ==
    /\ startsMade = MaxStartCalls
    /\ creating = 0
    /\ sessionsCreated = MaxStartCalls
    /\ workersCreated = 1


\* ======================================================= the Gemini provider
\* Texts are sequences of tokens: "F" is a run of three backquotes, "json"
\* the letters json, "ws" white space, "s" any other characters.  "{t" and
\* "{f" open a JSON object with the four report fields up to the opening
\* quote of its explanation string (visual_mismatch_identified true/false),
\* "{m" opens an object without incident_summary, "}" closes the string and
\* the object, "[]" is a JSON array, "junk" is text that is not JSON.
MaxBody == 2

BodyTokens == {"s", "F", "json"}
StringTokens == BodyTokens \cup {"ws"}
OpenTokens == {"{t", "{f", "{m"}

Bodies == UNION {[1..n -> BodyTokens] : n \in 0..MaxBody}
ObjectDocs == {<<o>> \o b \o <<"}">> : o \in OpenTokens, b \in Bodies}
Docs == ObjectDocs \cup {<<"junk">>, <<"[]">>, <<>>}
Wraps == {"plain", "json_fence", "fence"}

\* the oracle's outcomes: a status other than 200, an exception of the HTTP
\* client, a 200 body without candidates[0].content.parts[0].text, a text
\* entry that is not a string, or a text
OracleReplies ==
    {[kind |-> k, wrap |-> "plain", doc |-> <<>>] :
        k \in {"non200", "network", "nocandidates", "nontext"}}
    \cup {[kind |-> "text", wrap |-> w, doc |-> d] : w \in Wraps, d \in Docs}

\* the text of a reply: the document bare, in a ```json block, in a ``` block
Wrap(w, doc) ==
    CASE w = "plain" -> doc
      [] w = "json_fence" -> <<"F", "json", "ws">> \o doc \o <<"ws", "F">>
      [] w = "fence" -> <<"F", "ws">> \o doc \o <<"ws", "F">>

\* sep in text
Contains(text, sep) ==
    \E i \in 1..(Len(text) - Len(sep) + 1) : SubSeq(text, i, i + Len(sep) - 1) = sep

\* text.split(sep)
RECURSIVE SplitOn(_, _)
SplitOn(text, sep) ==
    LET n == Len(sep)
        hits == {i \in 1..(Len(text) - n + 1) : SubSeq(text, i, i + n - 1) = sep}
    IN IF hits = {} THEN <<text>>
       ELSE LET i == CHOOSE h \in hits : \A k \in hits : h <= k
            IN <<SubSeq(text, 1, i - 1)>> \o SplitOn(SubSeq(text, i + n, Len(text)), sep)

\* text.strip()
RECURSIVE Strip(_)
Strip(text) ==
    IF text = <<>> THEN text
    ELSE IF Head(text) = "ws" THEN Strip(Tail(text))
    ELSE IF text[Len(text)] = "ws" THEN Strip(SubSeq(text, 1, Len(text) - 1))
    ELSE text

\* json.loads
JsonLoads(text) ==
    LET t == Strip(text) IN
    IF t = <<"[]">>
    THEN [kind |-> "array", complete |-> FALSE, flag |-> FALSE, body |-> <<>>]
    ELSE IF /\ Len(t) >= 2
            /\ t[1] \in OpenTokens
            /\ t[Len(t)] = "}"
            /\ \A i \in 2..(Len(t) - 1) : t[i] \in StringTokens
    THEN [kind |-> "object", complete |-> t[1] # "{m", flag |-> t[1] = "{t",
          body |-> SubSeq(t, 2, Len(t) - 1)]
    ELSE [kind |-> "error", complete |-> FALSE, flag |-> FALSE, body |-> <<>>]

\* the two fallback reports of diagnose and a report built from parsed JSON
FallbackGeneration ==
    [incident_summary |-> "AI Generation Error",
     visual_mismatch_identified |-> FALSE,
     explanation |-> <<"Diagnosis generation failed">>,
     suggested_fix_logic |-> "Manual review required."]

FallbackParse ==
    [incident_summary |-> "AI Analysis Error",
     visual_mismatch_identified |-> FALSE,
     explanation |-> <<"Failed to parse Gemini response">>,
     suggested_fix_logic |-> "Manual review required."]

ParsedReport(v) ==
    [incident_summary |-> "summary",
     visual_mismatch_identified |-> v.flag,
     explanation |-> v.body,
     suggested_fix_logic |-> "fix"]

\* _generate_content posting again when the first request fails
GenerateContentRetrying(reply) ==
    IF reply.kind \in {"non200", "network", "nocandidates"}
    THEN [raised |-> TRUE, isText |-> FALSE, text |-> <<>>, posts |-> 2]
    ELSE [raised |-> FALSE, isText |-> reply.kind = "text",
          text |-> Wrap(reply.wrap, reply.doc), posts |-> 1]

\* _generate_content: one client.post; raises on every outcome but a 200
\* with a text entry
GenerateContent(reply) ==
    IF reply.kind \in {"non200", "network", "nocandidates"}
    THEN [raised |-> TRUE, isText |-> FALSE, text |-> <<>>, posts |-> 1]
    ELSE [raised |-> FALSE, isText |-> reply.kind = "text",
          text |-> Wrap(reply.wrap, reply.doc), posts |-> 1]

\* lines 107-110: the clean-up of markdown wrapping
StripFences(text) ==
    IF Contains(text, <<"F", "json">>)
    THEN Strip(SplitOn(SplitOn(text, <<"F", "json">>)[2], <<"F">>)[1])
    ELSE IF Contains(text, <<"F">>)
    THEN Strip(SplitOn(text, <<"F">>)[2])
    ELSE text

\* lines 111-112: json.loads and DiagnosisReport(**data)
ParseReply(g) ==
    LET v == IF g.isText THEN JsonLoads(StripFences(g.text))
             ELSE [kind |-> "error", complete |-> FALSE, flag |-> FALSE, body |-> <<>>]
    IN [ok |-> v.kind = "object" /\ v.complete, report |-> ParsedReport(v)]

\* diagnose without the try around the parsing
DiagnoseUnguarded(reply) ==
    LET g == GenerateContent(reply) IN
    IF g.raised THEN [raised |-> FALSE, report |-> FallbackGeneration]
    ELSE IF ParseReply(g).ok THEN [raised |-> FALSE, report |-> ParseReply(g).report]
    ELSE [raised |-> TRUE, report |-> NoReport]

\* GeminiProvider.diagnose, lines 90-120
Diagnose(reply) ==
    LET g == GenerateContent(reply) IN
    IF g.raised THEN [raised |-> FALSE, report |-> FallbackGeneration]
    ELSE IF ParseReply(g).ok THEN [raised |-> FALSE, report |-> ParseReply(g).report]
    ELSE [raised |-> FALSE, report |-> FallbackParse]

\* the provider alone: the oracle's answer is any of its outcomes
InitOracle ==
    /\ InitPipeline /\ InitServer /\ InitDiagIdle /\ InitPatchIdle
    /\ oracleReply \in OracleReplies
    /\ provided = NotProvided

ProviderDiagnose ==
    /\ provided = NotProvided
    /\ provided' = Diagnose(oracleReply)
    /\ UNCHANGED <<pipelineVars, serverVars, diagVars, patchVars, oracleReply>>

NextOracle == ProviderDiagnose

SpecOracle == InitOracle /\ [][NextOracle]_vars

\* the reply is a text holding, bare or fenced, a JSON object with the four
\* report fields
CarriesReport(reply) ==
    /\ reply.kind = "text"
    /\ JsonLoads(reply.doc).kind = "object"
    /\ JsonLoads(reply.doc).complete

\* C15: diagnose never raises; for every oracle outcome that is not a report
\* (non-200 status, network exception, no candidate text, text that is not
\* JSON, JSON that is not an object or lacks a report field) it returns a
\* report with visual_mismatch_identified = false and a non-empty
\* explanation.
C15_FallbackReport ==
    provided # NotProvided =>
        /\ ~provided.raised
        /\ ~CarriesReport(oracleReply) =>
               /\ provided.report.visual_mismatch_identified = FALSE
               /\ provided.report.explanation # <<>>

C15_Witness ==
    /\ provided # NotProvided
    /\ oracleReply.kind = "text"
    /\ oracleReply.doc = <<"junk">>
    /\ oracleReply.wrap = "json_fence"

\* C16: for every oracle text that is a JSON object with the four report
\* fields, whatever its string values contain, diagnose returns the report
\* parsed from that JSON, also when the JSON is wrapped in a ```json block
\* or in an untagged block.
C16_FenceInvariant ==
    provided # NotProvided /\ CarriesReport(oracleReply) =>
        provided.report = ParsedReport(JsonLoads(oracleReply.doc))


\* ======================================================= the diagnosis engine
MaxRowId == 4
MaxWindow == 2
MaxDiagRows == 1
DefaultWindow == 5

Min(a, b) == IF a <= b THEN a ELSE b

\* db.get(TraceEvent, event_id)
RowsWithId(st, event_id) == {r \in st : r.id = event_id}
GetEvent(st, event_id) == CHOOSE r \in RowsWithId(st, event_id) : TRUE

\* ORDER BY id DESC: the ids of the rows, largest first
RECURSIVE OrderByIdDesc(_)
OrderByIdDesc(ids) ==
    IF ids = {} THEN <<>>
    ELSE LET m == CHOOSE x \in ids : \A y \in ids : y <= x
         IN <<m>> \o OrderByIdDesc(ids \ {m})

\* LIMIT n
Limit(seq, n) == SubSeq(seq, 1, Min(n, Len(seq)))

\* reversed(...)
Reversed(seq) == [i \in 1..Len(seq) |-> seq[Len(seq) + 1 - i]]

\* the query of lines 30-36
PriorRows(st, target, n) ==
    Limit(OrderByIdDesc({r.id : r \in {x \in st : /\ x.session_id = target.session_id
                                                    /\ x.id < target.id}}), n)

\* the context window left in the order the query returns it
PreviousEventsDesc(st, target, n) == PriorRows(st, target, n)

\* line 38: previous_events
PreviousEvents(st, target, n) == Reversed(PriorRows(st, target, n))

\* the oracle's answers to the patch prompt as _generate_content sees them
PatchReply(patchReply) ==
    CASE patchReply = "diff" -> [kind |-> "text", wrap |-> "plain", doc |-> <<"s">>]
      [] patchReply = "error" -> [kind |-> "network", wrap |-> "plain", doc |-> <<>>]
      [] patchReply = "nontext" -> [kind |-> "nontext", wrap |-> "plain", doc |-> <<>>]

\* generate_patch with the clean-up inside the try
GeneratePatchGuarded(patchReply) ==
    LET g == GenerateContent(PatchReply(patchReply)) IN
    IF g.raised \/ ~g.isText
    THEN [raised |-> "none", text |-> "error_text", posts |-> g.posts]
    ELSE [raised |-> "none", text |-> "diff", posts |-> g.posts]

\* generate_patch: an exception of _generate_content becomes an error
\* string (lines 153-159); the clean-up of lines 162-169 is outside the try
\* and applies "in" to whatever the text entry holds
GeneratePatch(patchReply) ==
    LET g == GenerateContent(PatchReply(patchReply)) IN
    IF g.raised THEN [raised |-> "none", text |-> "error_text", posts |-> g.posts]
    ELSE IF ~g.isText THEN [raised |-> "TypeError", text |-> "null", posts |-> g.posts]
    ELSE [raised |-> "none", text |-> "diff", posts |-> g.posts]

\* line 62: the source file named by the payload, else "agent.py"
FilePathOf(metadata) ==
    CASE metadata = "source" -> "src.py"
      [] metadata = "outside" -> "../outside.py"
      [] OTHER -> "agent.py"

\* DiagnosisEngine.run_diagnosis
RunDiagnosis(st, event_id, n, reply, patchReply, root, srcFiles) ==
    IF RowsWithId(st, event_id) = {}
    THEN [NoResp EXCEPT !.raised = "ValueError"]
    ELSE LET target == GetEvent(st, event_id)
             called == [NoResp EXCEPT !.window = PreviousEvents(st, target, n),
                                      !.diagnoseCalls = 1,
                                      !.oracleRequests = GenerateContent(reply).posts,
                                      !.diagnosis = Diagnose(reply).report]
             gen == GeneratePatch(patchReply)
         IN IF target.metadata = "null"
            THEN \* None.get("source_file")
                 [called EXCEPT !.raised = "AttributeError"]
            ELSE IF ~root \/ srcFiles[FilePathOf(target.metadata)] = "missing"
            THEN called
            ELSE IF srcFiles[FilePathOf(target.metadata)] = "unreadable"
            THEN \* open() or read() fails
                 [called EXCEPT !.raised = "OSError"]
            ELSE [called EXCEPT !.patchCalls = 1,
                                !.oracleRequests = @ + gen.posts,
                                !.raised = gen.raised,
                                !.patch = gen.text]

\* the endpoint answering an unknown event like an internal failure
DiagnoseEventConflating(configured, st, event_id, reply, patchReply, root, srcFiles) ==
    IF ~configured
    THEN [NoResp EXCEPT !.status = 500, !.detail = "not_configured"]
    ELSE LET r == RunDiagnosis(st, event_id, DefaultWindow, reply, patchReply, root, srcFiles)
         IN IF r.raised = "none" THEN [r EXCEPT !.status = 200]
            ELSE [r EXCEPT !.status = 500, !.detail = "failed"]

\* POST /events/{event_id}/diagnose
DiagnoseEvent(configured, st, event_id, reply, patchReply, root, srcFiles) ==
    IF ~configured
    THEN [NoResp EXCEPT !.status = 500, !.detail = "not_configured"]
    ELSE LET r == RunDiagnosis(st, event_id, DefaultWindow, reply, patchReply, root, srcFiles)
         IN IF r.raised = "none" THEN [r EXCEPT !.status = 200]
            ELSE IF r.raised = "ValueError"
            THEN [r EXCEPT !.status = 404, !.detail = "not_found"]
            ELSE [r EXCEPT !.status = 500, !.detail = "failed"]

\* a row of trace_events
Row(id, sid, meta) ==
    [id |-> id, session_id |-> sid, run_id |-> id,
     event_type |-> KindOf("none", meta), metadata |-> meta, screenshot |-> "null"]

\* ------------------------------------------------------- the context window
\* stores of two sessions: each id is free or belongs to one of them
WindowStores ==
    {{Row(i, f[i], "absent") : i \in {j \in 1..MaxRowId : f[j] # 0}} :
        f \in [1..MaxRowId -> 0..2]}

WindowReplies ==
    {[kind |-> "text", wrap |-> "plain", doc |-> <<"{t", "s", "}">>],
     [kind |-> "network", wrap |-> "plain", doc |-> <<>>]}

InitWindow ==
    /\ InitPipeline /\ InitDiagIdle /\ InitPatchIdle
    /\ store \in WindowStores
    /\ payloads = <<>>
    /\ InitFeedIdle
    /\ oracleReply \in WindowReplies
    /\ provided = NotProvided

\* engine.run_diagnosis(db, event_id, window_size) called directly
RunDiagnosisCall(event_id, n) ==
    /\ diagReq' = [event_id |-> event_id, window_size |-> n]
    /\ diagResp' = RunDiagnosis(store, event_id, n, oracleReply, "diff",
                                projectRoot, projectFiles)
    /\ UNCHANGED <<pipelineVars, serverVars, oracleVars, configVars, patchVars>>

NextWindow ==
    \E event_id \in 1..(MaxRowId + 1), n \in (0..MaxWindow) \cup {DefaultWindow} :
        RunDiagnosisCall(event_id, n)

SpecWindow == InitWindow /\ [][NextWindow]_vars

\* the identities of the events before the requested one in its session
PriorIds ==
    {r.id : r \in {x \in store : /\ x.session_id = GetEvent(store, diagReq.event_id).session_id
                                   /\ x.id < diagReq.event_id}}

WindowIds == {diagResp.window[i] : i \in 1..Len(diagResp.window)}

DiagStores ==
    {{Row(i, 1, f[i]) : i \in {j \in 1..MaxDiagRows : f[j] # "free"}} :
        f \in [1..MaxDiagRows -> SdkMetadata \cup {"free"}]}

DiagReplies ==
    {[kind |-> "text", wrap |-> "plain", doc |-> <<"{t", "s", "}">>],
     [kind |-> "text", wrap |-> "json_fence", doc |-> <<"{f", "}">>],
     [kind |-> "text", wrap |-> "plain", doc |-> <<"junk">>],
     [kind |-> "network", wrap |-> "plain", doc |-> <<>>]}

FileStates == {"missing", "readable", "unreadable"}

InitDiag ==
    /\ InitPipeline /\ InitPatchIdle
    /\ store \in DiagStores
    /\ payloads = <<>>
    /\ InitFeedIdle
    /\ oracleReply \in DiagReplies
    /\ provided = NotProvided
    /\ engineConfigured \in BOOLEAN
    /\ projectRoot \in BOOLEAN
    /\ projectFiles \in [SourcePaths -> FileStates]
    /\ diagReq = NoReq
    /\ diagResp = NoResp

\* a client posts /events/{event_id}/diagnose
DiagnoseRequest(event_id, patchReply) ==
    /\ diagReq' = [event_id |-> event_id, window_size |-> DefaultWindow]
    /\ diagResp' = DiagnoseEvent(engineConfigured, store, event_id, oracleReply,
                                 patchReply, projectRoot, projectFiles)
    /\ UNCHANGED <<pipelineVars, serverVars, oracleVars, configVars, patchVars>>

NextDiag ==
    \E event_id \in 1..(MaxDiagRows + 1), patchReply \in {"diff", "error", "nontext"} :
        DiagnoseRequest(event_id, patchReply)

SpecDiag == InitDiag /\ [][NextDiag]_vars

UnknownEvent == diagReq # NoReq /\ RowsWithId(store, diagReq.event_id) = {}
KnownEvent == diagReq # NoReq /\ RowsWithId(store, diagReq.event_id) # {}

\* C14 as stated: a diagnosis request for an event identity that does not
\* exist is answered 404 (not 500) and makes no oracle call and no patch call.
C14_UnknownIs404 ==
    UnknownEvent =>
        /\ diagResp.status = 404
        /\ diagResp.diagnoseCalls = 0
        /\ diagResp.patchCalls = 0

\* C14 amended: with a configured oracle a request for an unknown event is
\* answered 404 from run_diagnosis' ValueError; without one it is answered
\* 500 (engine not configured) before the event is looked up; in both cases
\* no oracle call and no patch call is made.
C14_UnknownIs404WhenConfigured ==
    UnknownEvent =>
        /\ diagResp.diagnoseCalls = 0
        /\ diagResp.patchCalls = 0
        /\ engineConfigured =>
               diagResp.status = 404 /\ diagResp.raised = "ValueError"
        /\ ~engineConfigured =>
               diagResp.status = 500 /\ diagResp.detail = "not_configured"

C14_Witness ==
    /\ UnknownEvent
    /\ engineConfigured
    /\ diagResp.status = 404

\* C17: for every existing target event with a payload the callbacks produce
\* and a configured oracle, the request succeeds and carries a report for
\* every oracle outcome; only an unconfigured oracle yields the
\* misconfiguration error.
C17_DiagnosisSucceeds ==
    KnownEvent =>
        /\ engineConfigured =>
               diagResp.status = 200 /\ diagResp.diagnosis # NoReport
        /\ ~engineConfigured =>
               diagResp.status = 500 /\ diagResp.detail = "not_configured"


\* ======================================================= the patch applier
MaxApplyCalls == 1

\* what the environment does to one call: creating the temporary file and
\* writing the diff succeed or raise (no space, text that cannot be
\* encoded); the utility exits 0, exits non-zero with the target untouched
\* or partly patched, or is not installed; os.unlink succeeds, raises with
\* the file still there, or raises because the file is already gone
CreateOutcomes == {"ok", "fails"}
WriteOutcomes == {"ok", "fails"}
UtilityOutcomes == {"exit0", "nonzero", "nonzero_partial", "absent"}
UnlinkOutcomes == {"ok", "fails", "vanished"}

\* the target after the utility ran
Patched(state, utility) ==
    CASE utility = "exit0" -> "patched"
      [] utility = "nonzero_partial" -> "partial"
      [] OTHER -> state

\* apply_patch testing for the target only after writing the temporary file
ApplyPatchLateCheck(fs, path, env) ==
    [NoApplyResp EXCEPT !.result = "false", !.files = fs,
                        !.tempCreated = TRUE, !.tempLeft = TRUE]

\* PatchApplier.apply_patch on file system fs
ApplyPatch(fs, path, env) ==
    LET base == [NoApplyResp EXCEPT !.files = fs] IN
    IF fs[path] = "missing"
    THEN [base EXCEPT !.result = "false"]
    ELSE IF env.create = "fails"
    THEN \* NamedTemporaryFile raises, outside the try
         [base EXCEPT !.result = "raised"]
    ELSE IF env.write = "fails"
    THEN \* tmp.write raises, outside the try; delete=False keeps the file
         [base EXCEPT !.result = "raised", !.tempCreated = TRUE, !.tempLeft = TRUE]
    ELSE IF env.utility = "absent"
    THEN \* subprocess.run raises FileNotFoundError: the except clause
         IF env.unlink = "fails"
         THEN [base EXCEPT !.result = "raised", !.tempCreated = TRUE,
                           !.tempLeft = TRUE]
         ELSE [base EXCEPT !.result = "false", !.tempCreated = TRUE]
    ELSE LET ran == [base EXCEPT !.tempCreated = TRUE, !.invoked = TRUE,
                                 !.files = [fs EXCEPT ![path] = Patched(fs[path], env.utility)]]
         IN CASE env.unlink = "ok" ->
                    [ran EXCEPT !.result = IF env.utility = "exit0"
                                           THEN "true" ELSE "false"]
              [] env.unlink = "vanished" ->
                    \* unlink raises, the handler finds no file and returns False
                    [ran EXCEPT !.result = "false"]
              [] env.unlink = "fails" ->
                    \* unlink raises in the try and again in the handler
                    [ran EXCEPT !.result = "raised", !.tempLeft = TRUE]

\* POST /apply-patch
ApplyPatchEndpoint(root, fs, path, env) ==
    IF ~root
    THEN [NoApplyResp EXCEPT !.result = "none", !.status = 500, !.files = fs]
    ELSE LET r == ApplyPatch(fs, path, env) IN
         [r EXCEPT !.status = IF r.result = "raised" THEN 500 ELSE 200]

Environments ==
    [create : CreateOutcomes, write : WriteOutcomes, utility : UtilityOutcomes,
     unlink : UnlinkOutcomes]

InitPatch ==
    /\ InitPipeline /\ InitServer /\ InitOracleIdle
    /\ engineConfigured = FALSE
    /\ projectRoot \in BOOLEAN
    /\ projectFiles = [p \in SourcePaths |-> "missing"]
    /\ diagReq = NoReq
    /\ diagResp = NoResp
    /\ files \in [PatchPaths -> {"missing", "original"}]
    /\ tempFiles = 0
    /\ patchRuns = 0
    /\ applyCalls = 0
    /\ applyReq = NoApply
    /\ applyResp = NoApplyResp

\* the effect of one call on the disk and on the history
Applied(path, env, r) ==
    /\ applyCalls' = applyCalls + 1
    /\ applyReq' = [path |-> path, create |-> env.create, write |-> env.write,
                    utility |-> env.utility, unlink |-> env.unlink]
    /\ applyResp' = r
    /\ files' = r.files
    /\ tempFiles' = IF r.tempLeft THEN tempFiles + 1 ELSE tempFiles
    /\ patchRuns' = IF r.invoked THEN patchRuns + 1 ELSE patchRuns
    /\ UNCHANGED <<pipelineVars, serverVars, oracleVars, diagVars>>

\* PatchApplier.apply_patch(project_root, file_path, diff_content)
ApplyPatchCall(path, env) ==
    /\ applyCalls < MaxApplyCalls
    /\ Applied(path, env, ApplyPatch(files, path, env))

\* a client posts /apply-patch
ApplyPatchRequest(path, env) ==
    /\ applyCalls < MaxApplyCalls
    /\ Applied(path, env, ApplyPatchEndpoint(projectRoot, files, path, env))

NextPatch ==
    \/ \E path \in PatchPaths, env \in Environments : ApplyPatchCall(path, env)
    \/ \E path \in PatchPaths, env \in Environments : ApplyPatchRequest(path, env)

SpecPatch == InitPatch /\ [][NextPatch]_vars

\* apply_patch ran to its end in the last step (the endpoint did not stop
\* before it)
Returned == applyResp.result # "none"

\* C18: apply_patch on a target path that does not exist returns false
\* without creating a temporary file and without invoking the patch
\* utility, and leaves the file system unchanged.
C18_MissingTarget ==
    [][applyCalls' = applyCalls + 1 /\ applyResp'.result # "none"
          /\ files[applyReq'.path] = "missing" =>
              /\ applyResp'.result = "false"
              /\ ~applyResp'.tempCreated
              /\ ~applyResp'.invoked
              /\ files' = files
              /\ tempFiles' = tempFiles
              /\ patchRuns' = patchRuns]_vars

C18_Witness ==
    /\ Returned
    /\ applyReq.path = "gone.py"
    /\ files["gone.py"] = "missing"
    /\ applyResp.result = "false"
    /\ applyCalls = MaxApplyCalls

\* C19: after any apply_patch call returns or exits (success, utility
\* exiting non-zero, utility missing, any exception while writing or
\* applying the diff) no temporary diff file created by it remains on disk.
C19_NoTempLeft ==
    Returned => ~applyResp.tempLeft /\ tempFiles = 0

\* C20: apply_patch never raises past its boundary: for every input and
\* every failure it returns a boolean, and true only when the utility
\* exited with status 0.
C20_ReturnsBoolean ==
    Returned =>
        /\ applyResp.result \in {"true", "false"}
        /\ applyResp.result = "true" => applyReq.utility = "exit0"


\* os.path.join(project_root, file_path) names a file outside project_root:
\* ".." components climb out of it, an absolute file_path replaces it
ResolvesOutside(path) == path \in {"../outside.py", "/etc/abs.py"}

\* C21: apply_patch never invokes the patch utility on, and never modifies,
\* a file outside the project root: for every file_path that resolves
\* outside the root it returns false.
C21_StaysInsideRoot ==
    /\ Returned /\ ResolvesOutside(applyReq.path) =>
           applyResp.result = "false" /\ ~applyResp.invoked
    /\ \A p \in PatchPaths : ResolvesOutside(p) => files[p] \in {"missing", "original"}


\* ======================================================= POST /events
MaxStored == 2

\* the fixed vocabulary of event kinds
Vocabulary ==
    {"chain_start", "chain_end", "chain_error", "tool_start", "tool_end",
     "tool_error", "llm_start", "llm_end", "agent_action", "agent_finish"}

\* event_type texts a client can send: empty, white space only, a kind of
\* the vocabulary bare or padded with white space, another word, and a text
\* of more than 50 characters
EventTypeInputs == {"", "ws", "chain_start", "ws_tool_end_ws", "banana", "long51"}

\* v.strip()
StripType(v) ==
    CASE v = "ws" -> ""
      [] v = "ws_tool_end_ws" -> "tool_end"
      [] OTHER -> v

\* TraceEventCreate.event_type: Field(max_length=50), then the validator
ValidateEventType(v) ==
    IF v = "long51" THEN [ok |-> FALSE, value |-> v]
    ELSE IF StripType(v) = "" THEN [ok |-> FALSE, value |-> v]
    ELSE [ok |-> TRUE, value |-> StripType(v)]

\* POST /events: body validation (422), then create_event
PostEvents(st, ev, body) ==
    LET v == ValidateEventType(body.event_type) IN
    IF ~v.ok THEN [status |-> 422, store |-> st]
    ELSE CreateEvent(st, ev, [body EXCEPT !.event_type = v.value])

\* a client posts an event of an existing session
ClientPost(event_type, shot) ==
    /\ Cardinality(store) < MaxStored
    /\ LET r == PostEvents(store, [id |-> NextRowId(store), session_id |-> 1],
                           [event_type |-> event_type, screenshot_base64 |-> shot,
                            metadata |-> "absent"])
       IN /\ store' = r.store
          /\ posted' = [event_type |-> event_type, screenshot_base64 |-> shot,
                        status |-> r.status]
    /\ UNCHANGED <<pipelineVars, payloads, pendingTx, last_event_id, delivered,
                   queryVars, oracleVars, diagVars, patchVars>>

NextIngest ==
    \E event_type \in EventTypeInputs, shot \in Base64Texts : ClientPost(event_type, shot)

SpecIngest == Init /\ [][NextIngest]_vars

\* C22: an ingested event whose event_type is empty, white space only or
\* not one of the ten kinds of the vocabulary is rejected with a client
\* error and never persisted: every stored event has a kind of the
\* vocabulary.
C22_KindsFromVocabulary ==
    /\ \A r \in store : r.event_type \in Vocabulary
    /\ posted # NoPost /\ StripType(posted.event_type) \notin Vocabulary =>
           posted.status \in {400, 422}


\* ======================================================= callback payloads
\* A text is modelled by its length.
MaxCallbacks == 2
MaxLength == 1000
MarkerLength == 3

\* lengths of the text a caller hands to a callback
InputLengths == {0, MaxLength - 1, MaxLength, MaxLength + 1, 5 * MaxLength}

\* truncate(value): the length of the result
Truncate(len) == IF len > MaxLength THEN MaxLength + MarkerLength ELSE len

\* the length of the free-text entry of event_data each callback builds:
\* the error callbacks store str(error) as it is, the llm callbacks store
\* counts only, the others store truncate(...)
FieldLength(kind, len) ==
    IF kind \in {"chain_error", "tool_error"} THEN len
    ELSE IF kind \in {"llm_start", "llm_end"} THEN 0
    ELSE Truncate(len)

\* the payload of a callback called without metadata and screenshot
BuildPayload(kind, len) ==
    [event_type |-> kind, screenshot_base64 |-> "none",
     metadata |-> IF kind \in {"chain_start", "tool_start"} THEN "null" ELSE "absent",
     text_length |-> FieldLength(kind, len)]

\* an on_* callback builds its event
CallbackFires(kind, len) ==
    /\ Len(payloads) < MaxCallbacks
    /\ payloads' = Append(payloads, BuildPayload(kind, len))
    /\ UNCHANGED <<pipelineVars, store, feedVars, oracleVars, diagVars, patchVars>>

NextCallbacks ==
    \E kind \in Vocabulary, len \in InputLengths : CallbackFires(kind, len)

SpecCallbacks == Init /\ [][NextCallbacks]_vars

\* C23: every free-text field of every payload the handler builds has
\* length at most max_length + 3, whatever the size of the caller's input.
C23_TextBounded ==
    \A i \in 1..Len(payloads) : payloads[i].text_length <= MaxLength + MarkerLength


\* ======================================================= the live stream
MaxInserts == 3

\* the session whose stream is open; events of another one are stored too
StreamSession == 1
StoredSessions == {1, 2}

\* create_event up to db.refresh: the row has its id, its transaction is
\* open until get_db commits it
InsertFlush(sid, shot) ==
    /\ Cardinality(store \cup pendingTx) < MaxInserts
    /\ LET all == store \cup pendingTx
           r == CreateEvent(all, [id |-> NextRowId(all), session_id |-> sid],
                            [event_type |-> "tool_end", screenshot_base64 |-> shot,
                             metadata |-> "absent"])
       IN pendingTx' = pendingTx \cup (r.store \ all)
    /\ UNCHANGED <<pipelineVars, store, payloads, posted, last_event_id, delivered,
                   queryVars, oracleVars, diagVars, patchVars>>

\* get_db after the endpoint returned: session.commit()
Commit(row) ==
    /\ row \in pendingTx
    /\ pendingTx' = pendingTx \ {row}
    /\ store' = store \cup {row}
    /\ UNCHANGED <<pipelineVars, payloads, posted, last_event_id, delivered,
                   queryVars, oracleVars, diagVars, patchVars>>

\* the message sent for one row
StreamMessage(row) ==
    [id |-> row.id, event_type |-> row.event_type,
     has_screenshot |-> row.screenshot # "null"]

\* the rows of one poll: committed, of the session, above the cursor
NewRows(st, cursor) == {r \in st : r.session_id = StreamSession /\ r.id > cursor}

\* one round of the polling loop: the query and the messages it yields
StreamPoll ==
    /\ LET ids == Reversed(OrderByIdDesc({r.id : r \in NewRows(store, last_event_id)}))
       IN /\ delivered' = delivered \o
                 [i \in 1..Len(ids) |-> StreamMessage(GetEvent(store, ids[i]))]
          /\ last_event_id' = IF ids = <<>> THEN last_event_id ELSE ids[Len(ids)]
    /\ UNCHANGED <<pipelineVars, store, payloads, posted, pendingTx,
                   queryVars, oracleVars, diagVars, patchVars>>

NextStream ==
    \/ \E sid \in StoredSessions, shot \in SdkScreenshots : InsertFlush(sid, shot)
    \/ \E row \in pendingTx : Commit(row)
    \/ StreamPoll

SpecStream == Init /\ [][NextStream]_vars

DeliveredIds == {delivered[i].id : i \in 1..Len(delivered)}

\* C24: on a session's live stream every event persisted for the session is
\* delivered exactly once and in strictly increasing identity order, under
\* any interleaving of insertions and commits with the polling: the
\* identities sent increase strictly, no persisted event is left behind the
\* cursor undelivered, and a message carries the identity and the
\* has_screenshot flag, never the binary.
C24_StreamDeliversAll ==
    /\ \A i, j \in 1..Len(delivered) : i < j => delivered[i].id < delivered[j].id
    /\ \A r \in store : r.session_id = StreamSession /\ r.id <= last_event_id =>
           r.id \in DeliveredIds
    /\ \A i \in 1..Len(delivered) :
           DOMAIN delivered[i] = {"id", "event_type", "has_screenshot"}


\* ======================================================= the worker, again
\* the worker takes an event while the breaker is open (line 85)
SkipStep == now < cooldown_until /\ Len(queue') < Len(queue)

\* C25 as stated: each event the worker skips because the breaker is open
\* increments the failure counter, just as a failed send does.
C25_SkipCounts ==
    [][SkipStep => failed_count' = failed_count + 1]_vars

\* C25 amended: an event the worker skips because the breaker is open leaves
\* the failure counter and the cooldown deadline as they are; only a failed
\* send increments the counter.
C25_SkipLeavesCounter ==
    [][SkipStep => failed_count' = failed_count /\ cooldown_until' = cooldown_until]_vars

C25_Witness ==
    /\ lastOutcome = "skipped"
    /\ failed_count = MaxFailures
    /\ consecFailed = MaxFailures
    /\ queue = <<>>

\* C26: every event is handed to the transport at most once and leaves the
\* queue for good when the worker takes it: an event that was sent, failed
\* or skipped never comes back into the queue, so nothing is retried.
C26_AtMostOnce ==
    /\ [](\A i, j \in 1..Len(sent) : i # j => sent[i] # sent[j])
    /\ [](\A i \in 1..Len(sent), k \in 1..Len(queue) : queue[k].id # sent[i])
    /\ [](inflight # NoEvent => \A k \in 1..Len(queue) : queue[k].id # inflight.id)
    /\ [][\A k \in 1..Len(queue') :
             \/ queue'[k].id = nextId /\ nextId' = nextId + 1
             \/ \E m \in 1..Len(queue) : queue[m].id = queue'[k].id]_vars

C26_Witness ==
    /\ lastOutcome = "failed"
    /\ Len(sent) >= 2
    /\ lastEnqueue = "appended"
    /\ queue # <<>>
    /\ workerPc = "get"

\* a send_event call of the worker comes back with a failure
FailedSendStep == workerPc = "send" /\ workerPc' # "send" /\ lastOutcome' = "failed"

\* C27: a failed send (None returned, whatever exception the transport met)
\* marks the event done, counts exactly one failure and leaves the worker
\* waiting for the next event; a started worker stops only by cancellation.
C27_WorkerSurvives ==
    /\ [][FailedSendStep =>
             /\ workerPc' = "get"
             /\ unfinished' = unfinished - 1
             /\ failed_count' = failed_count + 1
             /\ inflight' = NoEvent]_vars
    /\ [](worker_task => workerPc \in {"get", "send", "cancelled"})
    /\ [][WorkerActive /\ ~WorkerActive' => workerPc' = "cancelled"]_vars

C27_Witness ==
    /\ lastOutcome = "failed"
    /\ consecFailed = 2
    /\ workerPc = "send"
    /\ Len(sent) = MaxFailures

\* C28: the buffer never holds more events than its capacity.
C28_Bounded == Len(queue) <= QueueSize

C28_Witness ==
    /\ Len(queue) = QueueSize
    /\ lastEnqueue = "evicted"
    /\ workerPc = "send"
    /\ Enqueued = MaxEvents

\* the event the worker took and has not marked done yet
Held == IF inflight # NoEvent THEN 1 ELSE 0

\* C29: the queue's unfinished counter is the number of buffered events plus
\* the one the worker holds, in every state, a cancelled worker's included;
\* the step that cancels the worker leaves the buffer as it was.
C29_UnfinishedCount ==
    /\ [](unfinished = Len(queue) + Held)
    /\ [][workerPc # "cancelled" /\ workerPc' = "cancelled" => queue' = queue]_vars

C29_Witness ==
    /\ workerPc = "cancelled"
    /\ lastOutcome = "cancelled"
    /\ lastEnqueue = "evicted"
    /\ Len(queue) = QueueSize

\* C30: a step that changes the failure counter or the cooldown deadline is
\* the worker receiving the outcome of a send; it is no enqueue, no flush
\* and no start_session step.
C30_BreakerFrame ==
    [][(failed_count' # failed_count \/ cooldown_until' # cooldown_until) =>
          /\ workerPc = "send" /\ inflight # NoEvent /\ inflight' = NoEvent
          /\ lastOutcome' \in {"sent", "failed"}
          /\ UNCHANGED <<queue, nextId, histEnqueue, startVars, histFlush>>]_vars

C30_Witness ==
    /\ failed_count = MaxFailures
    /\ cooldown_until # 0
    /\ flushPc = "returned"
    /\ startsMade = MaxStartCalls
    /\ lastEnqueue = "appended"
    /\ queue # <<>>


\* ======================================================= patch generation
\* the path line 62 resolves for the requested event
ResolvedPath == FilePathOf(GetEvent(store, diagReq.event_id).metadata)

\* the engine was reached with an existing target event
EngineRan == KnownEvent /\ engineConfigured

\* C31: generate_patch is called only when a project root is configured and
\* the resolved source file exists under it; otherwise it is not called and
\* the patch is null.
C31_PatchOnlyUnderRoot ==
    EngineRan =>
        \/ /\ projectRoot
           /\ projectFiles[ResolvedPath] # "missing"
           /\ ~ResolvesOutside(ResolvedPath)
        \/ diagResp.patchCalls = 0 /\ diagResp.patch = "null"

\* C32: once the source file is resolved and found, whatever goes wrong in
\* the patch step (reading the file, the oracle call, an unexpected oracle
\* response) the request succeeds and the patch field holds the diff or an
\* error string.
C32_PatchFailureDegrades ==
    (/\ EngineRan
     /\ GetEvent(store, diagReq.event_id).metadata # "null"
     /\ projectRoot
     /\ projectFiles[ResolvedPath] # "missing") =>
        /\ diagResp.status = 200
        /\ diagResp.raised = "none"
        /\ diagResp.patch \in {"diff", "error_text"}

\* C33 as stated: every diagnosis request makes exactly one diagnose call
\* and at most one generate_patch call, each with exactly one oracle request.
C33_OneCallPerRequest ==
    diagReq # NoReq =>
        /\ diagResp.diagnoseCalls = 1
        /\ diagResp.patchCalls <= 1
        /\ diagResp.oracleRequests = diagResp.diagnoseCalls + diagResp.patchCalls

\* C33 amended: a request that reaches the engine with an existing event
\* makes exactly one diagnose call, a request for an unknown event or with
\* no oracle configured makes none; generate_patch is called at most once
\* and only after diagnose; each call makes exactly one oracle request,
\* failed or not.
C33_OneCallWhenEngineRuns ==
    diagReq # NoReq =>
        /\ diagResp.diagnoseCalls = IF EngineRan THEN 1 ELSE 0
        /\ diagResp.patchCalls <= diagResp.diagnoseCalls
        /\ diagResp.oracleRequests = diagResp.diagnoseCalls + diagResp.patchCalls

C33_Witness ==
    /\ EngineRan
    /\ oracleReply.kind = "network"
    /\ diagResp.patchCalls = 1
    /\ diagResp.patch = "error_text"
    /\ diagResp.oracleRequests = 2


\* ======================================================= session queries
MaxQueryRows == 3
MaxStamp == 2

\* session ids a client can ask for: two that may exist, one that never does
QuerySessions == {1, 2, 3}

\* trace_events rows with the timestamp the client supplied; the foreign
\* key keeps every row in an existing session
StampedRow(id, sid, stamp) ==
    [id |-> id, session_id |-> sid, run_id |-> id, event_type |-> "tool_end",
     metadata |-> "absent", screenshot |-> "null", timestamp |-> stamp]

QueryStores(known) ==
    {{StampedRow(i, f[i][1], f[i][2]) : i \in {j \in 1..MaxQueryRows : f[j][1] # 0}} :
        f \in [1..MaxQueryRows -> ({0} \X {1}) \cup (known \X (1..MaxStamp))]}

InitQuery ==
    /\ InitPipeline /\ InitOracleIdle /\ InitDiagIdle /\ InitPatchIdle
    /\ sessions \in SUBSET StoredSessions
    /\ store \in QueryStores(sessions)
    /\ payloads = <<>>
    /\ posted = NoPost /\ pendingTx = {} /\ last_event_id = 0 /\ delivered = <<>>
    /\ queryReq = NoQuery
    /\ queryResp = NoAnswer

\* the sequences ORDER BY id ASC can return for a set of rows: one
OrderedById(rows) == Reversed(OrderByIdDesc({r.id : r \in rows}))

\* the sequences ORDER BY timestamp ASC can return for a set of rows: every
\* arrangement with non-decreasing timestamps (ties in any order)
OrderedByTimestamp(st, rows) ==
    {seq \in [1..Cardinality(rows) -> {r.id : r \in rows}] :
        /\ \A i, j \in DOMAIN seq : i # j => seq[i] # seq[j]
        /\ \A i, j \in DOMAIN seq :
               i < j => GetEvent(st, seq[i]).timestamp <= GetEvent(st, seq[j]).timestamp}

\* GET /sessions/{session_id}/events with the default skip and limit: the
\* answers the database may give
GetSessionEvents(known, st, sid) ==
    {[status |-> 200, notFound |-> FALSE, ids |-> seq] :
        seq \in OrderedByTimestamp(st, {r \in st : r.session_id = sid})}

\* GET /sessions/{session_id}
GetSession(known, st, sid) ==
    IF sid \notin known
    THEN [status |-> 404, notFound |-> TRUE, ids |-> <<>>]
    ELSE [status |-> 200, notFound |-> FALSE, ids |-> <<>>]

\* GET /sessions/{session_id}/events/stream up to the end of its first
\* poll: an unknown session gets one "Session not found" message
StreamSessionEvents(known, st, sid) ==
    IF sid \notin known
    THEN [status |-> 200, notFound |-> TRUE, ids |-> <<>>]
    ELSE [status |-> 200, notFound |-> FALSE,
          ids |-> OrderedById({r \in st : r.session_id = sid /\ r.id > 0})]

QueryFrame ==
    UNCHANGED <<pipelineVars, store, payloads, posted, pendingTx, last_event_id,
                delivered, sessions, oracleVars, diagVars, patchVars>>

GetSessionRequest(sid) ==
    /\ queryReq' = [op |-> "get_session", session_id |-> sid]
    /\ queryResp' = GetSession(sessions, store, sid)
    /\ QueryFrame

GetSessionEventsRequest(sid) ==
    /\ queryReq' = [op |-> "get_session_events", session_id |-> sid]
    /\ queryResp' \in GetSessionEvents(sessions, store, sid)
    /\ QueryFrame

StreamRequest(sid) ==
    /\ queryReq' = [op |-> "stream", session_id |-> sid]
    /\ queryResp' = StreamSessionEvents(sessions, store, sid)
    /\ QueryFrame

NextQuery ==
    \/ \E sid \in QuerySessions : GetSessionRequest(sid)
    \/ \E sid \in QuerySessions : GetSessionEventsRequest(sid)
    \/ \E sid \in QuerySessions : StreamRequest(sid)

SpecQuery == InitQuery /\ [][NextQuery]_vars

\* C34: every query keyed by a session id (get session, list its events,
\* open its stream) answers an unknown session with a not-found condition,
\* never with an empty success.
C34_UnknownSessionNotFound ==
    (queryReq # NoQuery /\ queryReq.session_id \notin sessions) => queryResp.notFound

\* the ids of the rows of the session asked for
SessionIds == {r.id : r \in {x \in store : x.session_id = queryReq.session_id}}

\* C35: the event listing returns the session's events in ascending order
\* of assigned identity, whatever their timestamps.
C35_ListingById ==
    queryReq.op = "get_session_events" =>
        /\ {queryResp.ids[i] : i \in 1..Len(queryResp.ids)} = SessionIds
        /\ \A i, j \in 1..Len(queryResp.ids) :
               i < j => queryResp.ids[i] < queryResp.ids[j]


\* ======================================================= the breaker, again
\* C36: while the breaker is open the failure counter is at least the
\* threshold, and no step taken while it is open lowers the counter.
C36_OpenMeansThreshold ==
    /\ [](BreakerOpen => failed_count >= MaxFailures)
    /\ [][BreakerOpen => failed_count' >= failed_count]_vars

C36_Witness ==
    /\ BreakerOpen
    /\ lastOutcome = "skipped"
    /\ now = 1 + TickStep
    /\ failed_count = MaxFailures

\* C37: the passing of time leaves the failure counter alone, and a failed
\* send that finds the counter at or above the threshold (the deadline has
\* elapsed, no success since) opens the breaker at once with the deadline
\* now + cooldown period.
C37_ReopensAtOnce ==
    /\ [][now' # now => failed_count' = failed_count]_vars
    /\ [][(FailedSendStep /\ failed_count >= MaxFailures) =>
             /\ failed_count' = failed_count + 1
             /\ cooldown_until' = now + CooldownPeriod
             /\ now < cooldown_until']_vars

C37_Witness ==
    /\ prevFailed = MaxFailures
    /\ failed_count = MaxFailures + 1
    /\ now > CooldownPeriod
    /\ cooldown_until = now + CooldownPeriod
    /\ lastOutcome = "failed"


\* ======================================================= flush without a worker
\* handlers of every capacity from 1 to QueueSize; the clock stands still
InitCapacity ==
    /\ \E size \in 1..QueueSize : InitHandler(size)
    /\ InitServer /\ InitOracleIdle /\ InitDiagIdle /\ InitPatchIdle

NextCapacity ==
    \/ Enqueue
    \/ StartCall
    \/ \E created \in BOOLEAN : StartResume(created)
    \/ WorkerDequeue
    \/ \E outcome \in TransportOutcomes : WorkerSendDone(outcome)
    \/ CancelWorker
    \/ FlushCall
    \/ FlushResume

SpecCapacity == InitCapacity /\ [][NextCapacity]_vars

\* a flush() call is made, or is waiting in join(), with events buffered and
\* no running worker
FlushWithoutWorker ==
    /\ ~WorkerActive
    /\ queue # <<>>
    /\ flushPc # "woken"

C39_NoSessionNoEffect ==
    /\ [][session_id = None =>
             \A k \in 1..Len(queue') : \E m \in 1..Len(queue) : queue[m] = queue'[k]]_vars
    /\ [][(session_id = None /\ session_id' = None) =>
             workersCreated' = workersCreated]_vars
    /\ [][(session_id = None /\ flushPc \in {"idle", "returned"} /\ flushPc' # flushPc) =>
             flushPc' = "returned"]_vars

\* the session ids carried by the events the handler holds
CarriedSessions ==
    {queue[k].session_id : k \in 1..Len(queue)}
        \cup (IF inflight # NoEvent THEN {inflight.session_id} ELSE {})

\* C40: once set, the session id never changes; the handler creates at most
\* one session in the store; all its events carry the same session id.
C40_OneSession ==
    /\ [][session_id # None => session_id' = session_id]_vars
    /\ [](sessionsCreated <= 1)
    /\ [](Cardinality(CarriedSessions) <= 1)

====
